---- MODULE Spec2Model ----
(***************************************************************************)
(* Model of a4-to-a3 (src/main.py): a batch of two-page PDF scans is       *)
(* dispatched over joblib workers; every document runs process_pdf, i.e.   *)
(* extract_images_from_pdf, stitch_images and adjust_levels_resize, the    *)
(* last two through the external Fiji/ImageJ tool (run_imagej_macro).      *)
(*                                                                         *)
(* Three specifications are defined:                                       *)
(*   Spec        the batch pipeline (main, process_pdf and its stages);    *)
(*   SpecResize  the size arithmetic of adjust_levels_resize;              *)
(*   SpecRect    the search rectangles of stitch_images.                   *)
(***************************************************************************)
EXTENDS Integers, Sequences, FiniteSets, TLC

(***************************************************************************)
(* Bounds of the model.                                                    *)
(***************************************************************************)
MaxCpu == 3           \* largest multiprocessing.cpu_count() considered
MaxPages == 3         \* largest page count of an input PDF considered

(***************************************************************************)
(* Paths.  A file name is a sequence of tokens whose concatenation is the  *)
(* string; a path is a parent directory and a name.  The last token of an  *)
(* input name is its suffix, so Path.stem drops it.                        *)
(***************************************************************************)
Path(parent, name) == [parent |-> parent, name |-> name]

InFiles ==
    { Path("scans", <<"a", ".pdf">>),
      Path("scans", <<"a", "-1", ".pdf">>),
      Path("scans", <<"b", ".pdf">>) }

stem(p) == SubSeq(p.name, 1, Len(p.name) - 1)

left_page_path(in_file) == Path(in_file.parent, stem(in_file) \o <<"-1", ".png">>)

right_page_path(in_file) == Path(in_file.parent, stem(in_file) \o <<"-2", ".png">>)

output(in_file) == Path(in_file.parent, stem(in_file) \o <<".png">>)

square_path(image) == Path(image.parent, stem(image) \o <<"-square", ".png">>)

\* The batches considered: every list of documents of InFiles that names
\* no document twice.
Batches ==
    { b \in UNION { [1..n -> InFiles] : n \in 1..Cardinality(InFiles) } :
        \A i, k \in DOMAIN b : i # k => b[i] # b[k] }

PageCounts == 1..MaxPages

(***************************************************************************)
(* main: the number of joblib workers.                                     *)
(***************************************************************************)
\* The positions of a batch.
DocIds == 1..Cardinality(InFiles)

Min(a, b) == IF a < b THEN a ELSE b

n_jobs(cpu, len) ==
    LET n == Min(cpu, len) IN IF n > 1 THEN n - 1 ELSE n

Workers == 1..MaxCpu

(***************************************************************************)
(* Exceptions.  All of them are subclasses of Exception.                   *)
(***************************************************************************)
ExcTypes ==
    { "ExtractImagesFromPdfException", "StitchImageException",
      "AdjustLevelsException", "PdfiumError", "ValueError", "OSError",
      "FileNotFoundError" }

\* The except clauses of process_pdf, lines 81-86, in order.  Each clause
\* only logs; logging swallows the formatting error its extra argument
\* causes, so a clause raises nothing itself.
HandlerForNoGeneric(e) ==
    IF e = "ExtractImagesFromPdfException" THEN "extract"
    ELSE IF e = "StitchImageException" THEN "stitch"
    ELSE "propagated"

HandlerFor(e) ==
    IF e = "ExtractImagesFromPdfException" THEN "extract"
    ELSE IF e = "StitchImageException" THEN "stitch"
    ELSE IF e \in ExcTypes THEN "generic"
    ELSE "propagated"

\* Lines 21 and 219-221: run_imagej_macro prepends the JVM directory to the
\* PATH of os.environ itself; a PATH is its entries, first entry first.
InitialPath == <<"/usr/bin">>

run_imagej_macro(path) == <<"/usr/lib/jvm/java-8-oracle/bin">> \o path

\* Lines 172-173 and 213-214: any exception of the macro run is wrapped.
StitchWrap(e) == "StitchImageException"

LevelsWrap(e) == "AdjustLevelsException"

\* Lines 235-240: how a run of the external tool can end.  Popen raises
\* when the executable cannot be started; the value of process.wait() is
\* not looked at.
MacroOutcomes == {"cannot_start", "exit_fail", "ok"}

VARIABLES
    in_files,     \* args.in_files, a sequence of paths
    keep_files,   \* args.keep_files
    cpu_count,    \* multiprocessing.cpu_count()
    next_doc,     \* index of the next entry joblib hands to a worker
    worker,       \* worker -> the entry it is running, 0 when idle
    aborted,      \* an exception of process_pdf reached Parallel
    fs,           \* the files existing next to the inputs
    env_path,     \* worker -> os.environ['PATH'] of the process, as entries
    job,          \* entry -> state of its process_pdf call (see NewJob)
    w, h,         \* SpecResize: size of the composite
    size_req,     \* SpecResize: what adjust_levels_resize asks of ImageJ
    page_w, page_h, \* SpecRect: size of the pages
    rects         \* SpecRect: the rectangles stitch_images selects

pipeline_vars ==
    << in_files, keep_files, cpu_count, next_doc, worker, aborted, fs,
       env_path, job >>

resize_vars == << w, h, size_req >>

rect_vars == << page_w, page_h, rects >>

vars == << pipeline_vars, resize_vars, rect_vars >>

\* The state of one process_pdf call.
NewJob ==
    [ pc          |-> "queued",  \* position inside process_pdf
      ran_by      |-> 0,         \* worker process that runs the call
      n_pages     |-> 0,         \* len(pdf) as read by the extraction
      left_page   |-> "None",    \* the left Pillow image: None, open, closed
      right_page  |-> "None",    \* the rotated right Pillow image
      returned    |-> FALSE,     \* extract_images_from_pdf returned its tuple
      closes      |-> 0,         \* close() calls made on the right image
      used_closed |-> FALSE,     \* the right image was used after its close()
      stages      |-> {},        \* stages of the pipeline that were entered
      stitch_run  |-> "none",    \* outcome of the external stitching run
      touched     |-> {},        \* files the call wrote, read back or deleted
      unlinked    |-> {},        \* files the call unlinked
      exc         |-> "none",    \* exception raised inside the try block
      raised_in   |-> "none",    \* stage that raised it
      handler     |-> "none" ]   \* except clause that handled it

NoResize == w = 0 /\ h = 0 /\ size_req = << >>

NoRect == page_w = 0 /\ page_h = 0 /\ rects = << >>

InitPipeline ==
    /\ in_files \in Batches
    /\ keep_files \in BOOLEAN
    /\ cpu_count \in 1..MaxCpu
    /\ next_doc = 1
    /\ worker = [k \in Workers |-> 0]
    /\ aborted = FALSE
    /\ fs = {}
    /\ env_path = [k \in Workers |-> InitialPath]
    /\ job = [d \in DOMAIN in_files |-> NewJob]

Init == InitPipeline /\ NoResize /\ NoRect

Frame == UNCHANGED << in_files, keep_files, cpu_count, resize_vars, rect_vars >>

(***************************************************************************)
(* main, lines 57-62: Parallel hands the entries, in order, to idle        *)
(* workers.  An exception leaving process_pdf ends the batch.              *)
(***************************************************************************)
Dispatch(k) ==
    /\ k <= n_jobs(cpu_count, Len(in_files))
    /\ worker[k] = 0
    /\ next_doc <= Len(in_files)
    /\ ~aborted
    /\ worker' = [worker EXCEPT ![k] = next_doc]
    /\ job' = [job EXCEPT ![next_doc].ran_by = k, ![next_doc].pc = "extract"]
    /\ next_doc' = next_doc + 1
    /\ UNCHANGED << aborted, fs, env_path >>
    /\ Frame

(***************************************************************************)
(* process_pdf, lines 81-86: an exception raised inside the try block      *)
(* selects an except clause; control then reaches the finally block.       *)
(***************************************************************************)
Raise(j, stage, e) ==
    [j EXCEPT !.exc = e, !.raised_in = stage, !.handler = HandlerFor(e),
              !.pc = "finally"]

Enter(j, stage) == [j EXCEPT !.stages = @ \cup {stage}]

\* line 113: the page-count check of extract_images_from_pdf.
PageCountAtLeastTwo(n) == n >= 2

PageCountOk(n) == n = 2

(***************************************************************************)
(* extract_images_from_pdf, lines 110-144: open the PDF, check its page    *)
(* count, render the two pages, save the left one, rotate, save and close  *)
(* the right one, return both images and the three paths.  Opening the     *)
(* PDF and saving a PNG can fail.                                          *)
(***************************************************************************)
extract_images_from_pdf(d) ==
    /\ d \in DOMAIN in_files
    /\ job[d].pc = "extract"
    /\ \E readable \in BOOLEAN, n \in PageCounts, saved \in 0..2 :
         LET j == Enter(job[d], "extract")
             left == left_page_path(in_files[d])
             right == right_page_path(in_files[d])
         IN
         IF ~readable
         THEN /\ job' = [job EXCEPT ![d] = Raise(j, "extract", "PdfiumError")]
              /\ fs' = fs
         ELSE IF ~PageCountOk(n)                                 \* line 113
         THEN /\ job' = [job EXCEPT ![d] =
                    Raise([j EXCEPT !.n_pages = n], "extract",
                          "ExtractImagesFromPdfException")]
              /\ fs' = fs
         ELSE IF n # 2                \* line 124: unpacking into two names
         THEN /\ job' = [job EXCEPT ![d] =
                    Raise([j EXCEPT !.n_pages = n], "extract", "ValueError")]
              /\ fs' = fs
         ELSE IF saved = 0                                       \* line 132
         THEN /\ job' = [job EXCEPT ![d] =
                    Raise([j EXCEPT !.n_pages = n, !.left_page = "open"],
                          "extract", "OSError")]
              /\ fs' = fs
         ELSE IF saved = 1                                       \* line 139
         THEN /\ job' = [job EXCEPT ![d] =
                    Raise([j EXCEPT !.n_pages = n, !.left_page = "open",
                                    !.right_page = "open",
                                    !.touched = @ \cup {left}],
                          "extract", "OSError")]
              /\ fs' = fs \cup {left}
         ELSE /\ job' = [job EXCEPT ![d] =
                    [j EXCEPT !.n_pages = n, !.left_page = "open",
                              !.right_page = "closed",           \* line 140
                              !.closes = @ + 1,
                              !.touched = @ \cup {left, right},
                              !.returned = TRUE,                 \* line 144
                              !.pc = "stitch"]]
              /\ fs' = fs \cup {left, right}
    /\ UNCHANGED << next_doc, worker, aborted, env_path >>
    /\ Frame

\* Path.unlink, lines 177 and 178: a missing file raises FileNotFoundError.
\* The files left after unlinking the paths of the sequence ps in order.
RECURSIVE UnlinkAll(_, _)
UnlinkAll(files, ps) ==
    IF ps = << >> THEN [ok |-> TRUE, files |-> files, gone |-> {}]
    ELSE IF Head(ps) \notin files
      THEN [ok |-> FALSE, files |-> files, gone |-> {}]
    ELSE LET rest == UnlinkAll(files \ {Head(ps)}, Tail(ps))
         IN [rest EXCEPT !.gone = @ \cup {Head(ps)}]

(***************************************************************************)
(* stitch_images, lines 155-178: build the macro from the sizes of the two *)
(* images and run it; then, unless keep_files, unlink the two page files.  *)
(* The tool writes the composite only if it can open both page files.      *)
(***************************************************************************)
stitch_images(d) ==
    /\ d \in DOMAIN in_files
    /\ job[d].pc = "stitch"
    /\ \E r \in MacroOutcomes :
         LET in == in_files[d]
             k == job[d].ran_by
             left == left_page_path(in)
             right == right_page_path(in)
             j == [Enter(job[d], "stitch") EXCEPT
                     !.used_closed = @ \/ job[d].right_page = "closed",
                     !.stitch_run = r]
             fs1 == IF r = "ok" THEN fs \cup {output(in)} ELSE fs
             read == {left, right} \cup (IF r = "ok" THEN {output(in)} ELSE {})
             u == UnlinkAll(fs1, <<left, right>>)
         IN
         /\ r = "ok" => {left, right} \subseteq fs
         /\ env_path' = [env_path EXCEPT ![k] = run_imagej_macro(@)]
         /\ IF r = "cannot_start"                        \* lines 172-173
            THEN /\ job' = [job EXCEPT ![d] =
                       Raise(j, "stitch", StitchWrap("OSError"))]
                 /\ fs' = fs
            ELSE IF keep_files                           \* line 175
            THEN /\ job' = [job EXCEPT ![d] =
                       [j EXCEPT !.touched = @ \cup read, !.pc = "levels"]]
                 /\ fs' = fs1
            ELSE /\ fs' = u.files
                 /\ job' = [job EXCEPT ![d] =
                       LET j2 == [j EXCEPT !.touched = @ \cup read \cup u.gone,
                                           !.unlinked = u.gone]
                       IN IF u.ok THEN [j2 EXCEPT !.pc = "levels"]
                          ELSE Raise(j2, "stitch", "FileNotFoundError")]
    /\ UNCHANGED << next_doc, worker, aborted >>
    /\ Frame

(***************************************************************************)
(* adjust_levels_resize, lines 182-214: read the size of the composite     *)
(* (the size arithmetic is AdjustSize below), then run the macro that      *)
(* saves the composite again and the square image next to it.              *)
(***************************************************************************)
adjust_levels_resize(d) ==
    /\ d \in DOMAIN in_files
    /\ job[d].pc = "levels"
    /\ \E r \in MacroOutcomes :
         LET image == output(in_files[d])
             k == job[d].ran_by
             j == Enter(job[d], "levels")
         IN
         IF image \notin fs                             \* line 184
         THEN /\ job' = [job EXCEPT ![d] =
                    Raise(j, "levels", "FileNotFoundError")]
              /\ UNCHANGED << fs, env_path >>
         ELSE /\ env_path' = [env_path EXCEPT ![k] = run_imagej_macro(@)]
              /\ fs' = IF r = "ok" THEN fs \cup {square_path(image)} ELSE fs
              /\ job' = [job EXCEPT ![d] =
                   IF r = "cannot_start"                 \* lines 213-214
                   THEN Raise([j EXCEPT !.touched = @ \cup {image}],
                              "levels", LevelsWrap("OSError"))
                   ELSE [j EXCEPT
                           !.touched = @ \cup {image} \cup
                              (IF r = "ok" THEN {square_path(image)} ELSE {}),
                           !.pc = "finally"]]
    /\ UNCHANGED << next_doc, worker, aborted >>
    /\ Frame

(***************************************************************************)
(* process_pdf, lines 81-91: the except clause selected by Raise has       *)
(* logged; the finally block closes the images extract_images_from_pdf     *)
(* returned.                                                               *)
(***************************************************************************)
process_pdf_finally(d) ==
    /\ d \in DOMAIN in_files
    /\ job[d].pc = "finally"
    /\ job' = [job EXCEPT ![d] =
         IF @.returned
         THEN [@ EXCEPT !.left_page = "closed",
                        !.used_closed = @ \/ job[d].right_page = "closed",
                        !.closes = @ + 1,
                        !.right_page = "closed",
                        !.pc = "done"]
         ELSE [@ EXCEPT !.pc = "done"]]
    /\ UNCHANGED << next_doc, worker, aborted, fs, env_path >>
    /\ Frame

(***************************************************************************)
(* The call leaves process_pdf: its locals are gone and only its outcome   *)
(* is left, the worker is free again, and an exception no clause handled   *)
(* reaches Parallel (line 62).                                             *)
(***************************************************************************)
process_pdf_return(d) ==
    /\ d \in DOMAIN in_files
    /\ job[d].pc = "done"
    /\ job' = [job EXCEPT ![d] =
                 [NewJob EXCEPT !.pc = "returned", !.handler = job[d].handler]]
    /\ worker' = [worker EXCEPT ![job[d].ran_by] = 0]
    /\ aborted' = (aborted \/ job[d].handler = "propagated")
    /\ UNCHANGED << next_doc, fs, env_path >>
    /\ Frame

Next ==
    \/ \E k \in Workers : Dispatch(k)
    \/ \E d \in DocIds : extract_images_from_pdf(d)
    \/ \E d \in DocIds : stitch_images(d)
    \/ \E d \in DocIds : adjust_levels_resize(d)
    \/ \E d \in DocIds : process_pdf_finally(d)
    \/ \E d \in DocIds : process_pdf_return(d)

Spec == Init /\ [][Next]_vars

(***************************************************************************)
(* Python floats.  Lines 191-195 divide and multiply Python numbers: `/` on *)
(* two ints and `*` on an int and a float give IEEE-754 doubles, rounded   *)
(* to nearest, ties to even.  A number is kept as its 53 significant bits, *)
(* most significant first, and the exponent of the last one:               *)
(* value = m * 2^e.  An int of the program is kept in the same form, so    *)
(* two numbers are equal exactly when their records are.                   *)
(***************************************************************************)
MantissaBits == 53

\* The number of bits of an int n >= 0 below 2^30, and its bits.
BitLen(n) == CHOOSE k \in 0..30 : n < 2^k /\ (k = 0 \/ n >= 2^(k - 1))

BitsOf(n) == [i \in 1..BitLen(n) |-> (n \div 2^(BitLen(n) - i)) % 2]

Zeros(n) == [i \in 1..n |-> 0]

\* m + 1 on a bit sequence; the result is one bit longer on overflow.
Increment(m) ==
    IF \A i \in 1..Len(m) : m[i] = 1 THEN << 1 >> \o Zeros(Len(m))
    ELSE LET z == CHOOSE i \in 1..Len(m) :
                    m[i] = 0 /\ \A k \in (i + 1)..Len(m) : m[k] = 1
         IN [i \in 1..Len(m) |-> IF i < z THEN m[i] ELSE IF i = z THEN 1 ELSE 0]

\* Round the exact value m * 2^e (m with at least 53 bits, first bit 1,
\* plus a non-zero remainder below the last bit when sticky) to a double.
RoundToDouble(m, e, sticky) ==
    LET extra == Len(m) - MantissaBits
        kept == SubSeq(m, 1, MantissaBits)
        guard == extra > 0 /\ m[MantissaBits + 1] = 1
        rest == sticky \/ \E i \in (MantissaBits + 2)..Len(m) : m[i] = 1
        up == guard /\ (rest \/ kept[MantissaBits] = 1)
        r == IF up THEN Increment(kept) ELSE kept
    IN IF Len(r) > MantissaBits
       THEN [m |-> SubSeq(r, 1, MantissaBits), e |-> e + extra + 1]
       ELSE [m |-> r, e |-> e + extra]

\* float(n) for an int n > 0 below 2^30.
FromInt(n) ==
    [m |-> BitsOf(n) \o Zeros(MantissaBits - BitLen(n)),
     e |-> BitLen(n) - MantissaBits]

\* The first 54 quotient bits of a / b from its first 1 bit on, for ints
\* 0 < a < b < 2^29, by long division: rem[i] is the remainder after i
\* quotient bits, the bit after it is 1 when twice the remainder reaches b.
DivBits(a, b) ==
    LET n == BitLen(b) + MantissaBits + 1
        rem[i \in 0..n] == IF i = 0 THEN a ELSE (2 * rem[i - 1]) % b
        bit(i) == (2 * rem[i - 1]) \div b
        p == CHOOSE i \in 1..BitLen(b) : bit(i) = 1 /\ \A k \in 1..(i - 1) : bit(k) = 0
    IN [m |-> [i \in 1..(MantissaBits + 1) |-> bit(p + i - 1)],
        e |-> 0 - (p + MantissaBits),
        sticky |-> rem[p + MantissaBits] # 0]

\* a / b (true division, lines 191 and 193) for ints 0 < a < b.
FloatDiv(a, b) ==
    LET q == DivBits(a, b) IN RoundToDouble(q.m, q.e, q.sticky)

\* The bits of m * n for a bit sequence m and an int 1 <= n < 2^29:
\* carry[i] is the carry out of the i lowest bits of m.
MulBits(m, n) ==
    LET len == Len(m)
        carry[i \in 0..len] ==
            IF i = 0 THEN 0 ELSE (m[len - i + 1] * n + carry[i - 1]) \div 2
    IN BitsOf(carry[len]) \o [i \in 1..len |-> (m[i] * n + carry[len - i]) % 2]

\* n * x (lines 194 and 195) for an int n >= 1 and a double x.
FloatMulInt(n, x) == RoundToDouble(MulBits(x.m, n), x.e, FALSE)

(***************************************************************************)
(* adjust_levels_resize, lines 185-197 and 202-206: the width and height   *)
(* asked of "Size..." and the side asked of "Canvas Size...".              *)
(***************************************************************************)
OUTPUT_FILE_SIZE == 2000

AdjustSize(width, height) ==
    IF width > OUTPUT_FILE_SIZE \/ height > OUTPUT_FILE_SIZE
    THEN LET ratio == IF width > height
                      THEN FloatDiv(OUTPUT_FILE_SIZE, width)
                      ELSE FloatDiv(OUTPUT_FILE_SIZE, height)
         IN [ width |-> FloatMulInt(width, ratio),
              height |-> FloatMulInt(height, ratio),
              biggest_side |-> OUTPUT_FILE_SIZE ]
    ELSE [ width |-> FromInt(width),
           height |-> FromInt(height),
           biggest_side |-> IF width > height THEN width ELSE height ]

\* The sizes of composite considered, on both sides of OUTPUT_FILE_SIZE.
Sides == {1, 640, 1999, 2000, 2001, 2105, 2480, 3000, 3508, 4096, 4961, 7016}

ParkedPipeline ==
    /\ in_files = << >>
    /\ keep_files = FALSE
    /\ cpu_count = 1
    /\ next_doc = 1
    /\ worker = [k \in Workers |-> 0]
    /\ aborted = FALSE
    /\ fs = {}
    /\ env_path = [k \in Workers |-> InitialPath]
    /\ job = << >>

InitResize ==
    /\ w \in Sides
    /\ h \in Sides
    /\ size_req = << >>
    /\ ParkedPipeline
    /\ NoRect

ResizeStep ==
    /\ size_req = << >>
    /\ size_req' = AdjustSize(w, h)
    /\ UNCHANGED << w, h, pipeline_vars, rect_vars >>

NextResize == ResizeStep

SpecResize == InitResize /\ [][NextResize]_vars

(***************************************************************************)
(* stitch_images, lines 154-163: the rectangles selected on the two pages  *)
(* by makeRectangle(x, y, width, height).  threshold is kept in tenths,    *)
(* and so are x and width (tenths of a pixel), which makes the products    *)
(* of lines 160 and 163 exact; y and height are ints of the program.       *)
(***************************************************************************)
threshold == 1

TopMargin == 50

LeftRect(width, height) ==
    [ x |-> width * (10 - threshold), y |-> TopMargin,
      width |-> threshold * width, height |-> height - TopMargin ]

RightRect(width, height) ==
    [ x |-> 0, y |-> TopMargin,
      width |-> threshold * width, height |-> height - TopMargin ]

\* The page sizes considered (A4 at 72, 150 and 300 dpi among them).
PageWidths == {200, 595, 1240, 1241, 1653, 2480, 2481, 4961}

PageHeights == {101, 150, 842, 1754, 2339, 3508, 7016}

InitRect ==
    /\ page_w \in PageWidths
    /\ page_h \in PageHeights
    /\ rects = << >>
    /\ ParkedPipeline
    /\ NoResize

RectStep ==
    /\ rects = << >>
    /\ rects' = [left |-> LeftRect(page_w, page_h),
                 right |-> RightRect(page_w, page_h)]
    /\ UNCHANGED << page_w, page_h, pipeline_vars, resize_vars >>

NextRect == RectStep

SpecRect == InitRect /\ [][NextRect]_vars

(***************************************************************************)
(* Properties.                                                             *)
(***************************************************************************)
Entries == DOMAIN in_files

\* No call is running and Parallel hands out no further entry.
BatchOver ==
    /\ \A d \in Entries : job[d].pc \in {"queued", "returned"}
    /\ aborted \/ next_doc > Len(in_files)

\* C1: whatever fails in whichever documents, no exception leaves
\* process_pdf towards Parallel, and once the batch is over every entry has
\* run to an outcome: completed, or a failure logged by an except clause.
C1_NoExceptionLeavesProcessPdf ==
    /\ ~aborted
    /\ \A d \in Entries : job[d].handler # "propagated"
    /\ BatchOver =>
         \A d \in Entries :
            /\ job[d].pc = "returned"
            /\ job[d].handler \in {"none", "extract", "stitch", "generic"}

\* A batch of three is over: one document completed, one failed in the
\* extraction, one failed with an exception only the last clause catches.
C1_Witness ==
    /\ BatchOver
    /\ Len(in_files) = 3
    /\ {job[d].handler : d \in Entries} = {"none", "extract", "generic"}

\* C2: a document whose page count is not 2 fails with
\* ExtractImagesFromPdfException, handled by its own clause, before its
\* call has written any file, and neither stitch_images nor
\* adjust_levels_resize is entered for it.
C2_WrongPageCountSkipsDocument ==
    \A d \in Entries :
       job[d].n_pages \notin {0, 2} =>
          /\ job[d].exc = "ExtractImagesFromPdfException"
          /\ job[d].handler = "extract"
          /\ job[d].touched = {}
          /\ job[d].stages = {"extract"}
          /\ job[d].stitch_run = "none"
          /\ job[d].pc \in {"finally", "done"}

\* The finally block has run for a document of three pages and for one of a
\* single page.
C2_Witness ==
    /\ \E d \in Entries : job[d].n_pages > 2 /\ job[d].pc = "done"
    /\ \E d \in Entries : job[d].n_pages = 1 /\ job[d].pc \in {"finally", "done"}

\* C3: adjust_levels_resize is entered only after a successful stitching
\* run; a stitching run that could not be started, or that ended without
\* the composite, raises StitchImageException, and then neither the levels
\* step nor the deletion of the page files happens.
C3_FailsClosedOnStitching ==
    \A d \in Entries :
       /\ "levels" \in job[d].stages => job[d].stitch_run = "ok"
       /\ job[d].stitch_run \in {"cannot_start", "exit_fail"} =>
            /\ job[d].exc = "StitchImageException"
            /\ "levels" \notin job[d].stages
            /\ job[d].unlinked = {}

FilesOf(in_file) ==
    { left_page_path(in_file), right_page_path(in_file), output(in_file),
      square_path(output(in_file)) }

\* No other entry of the batch names a file of entry d.
Isolated(d) ==
    \A o \in Entries \ {d} : FilesOf(in_files[o]) \cap FilesOf(in_files[d]) = {}

\* C4: when process_pdf ends for a document whose extraction wrote both
\* page files, the two files exist if and only if keep_files is set.
C4_PageFilesKeptIffKeepFiles ==
    \A d \in Entries :
       (job[d].pc = "done" /\ job[d].returned /\ Isolated(d)) =>
          LET left == left_page_path(in_files[d])
              right == right_page_path(in_files[d])
          IN /\ keep_files => {left, right} \subseteq fs
             /\ ~keep_files => left \notin fs /\ right \notin fs

\* C5: two different documents run by different workers never touch a
\* common file.
C5_NoFileSharedBetweenDocuments ==
    \A d1, d2 \in Entries :
       ( /\ d1 # d2
         /\ in_files[d1] # in_files[d2]
         /\ job[d1].ran_by # 0
         /\ job[d2].ran_by # 0
         /\ job[d1].ran_by # job[d2].ran_by ) =>
          job[d1].touched \cap job[d2].touched = {}

Max(a, b) == IF a > b THEN a ELSE b

\* C6: the canvas asked for is square with side min(max(w, h), S), and the
\* larger side of the size asked for the image equals that side.
C6_LargerSideEqualsCanvasSide ==
    size_req # << >> =>
       /\ size_req.biggest_side = Min(Max(w, h), OUTPUT_FILE_SIZE)
       /\ (IF w > h THEN size_req.width ELSE size_req.height)
             = FromInt(size_req.biggest_side)

StageException(stage) ==
    IF stage = "extract" THEN "ExtractImagesFromPdfException"
    ELSE IF stage = "stitch" THEN "StitchImageException"
    ELSE "AdjustLevelsException"

\* C7: a failure inside a stage reaches process_pdf as that stage's own
\* exception type and is handled by a clause for that type, never by the
\* last, generic clause.
C7_EveryFailureIsTyped ==
    \A d \in Entries :
       job[d].exc # "none" =>
          /\ job[d].exc = StageException(job[d].raised_in)
          /\ job[d].handler = job[d].raised_in
          /\ job[d].handler # "generic"

\* C8: on both pages the rectangle is threshold * W wide, touches the
\* facing edge, lies within the page, and leaves out 50 rows at the top and
\* 50 rows at the bottom.
C8_RectangleWithinMargins ==
    rects # << >> =>
       /\ rects.left.width = threshold * page_w
       /\ rects.right.width = threshold * page_w
       /\ rects.left.x + rects.left.width = 10 * page_w
       /\ rects.right.x = 0
       /\ \A r \in {rects.left, rects.right} :
             /\ r.x >= 0
             /\ r.x + r.width <= 10 * page_w
             /\ r.y = TopMargin
             /\ r.y + r.height = page_h - TopMargin

\* C9: whenever a worker is between two documents, its PATH is what it was
\* before its first document.
C9_PathUnchangedBetweenDocuments ==
    \A k \in Workers : worker[k] = 0 => env_path[k] = InitialPath

\* C10: the right page image is never used after its close(), and the
\* images extract_images_from_pdf returned are closed exactly once.
C10_NoUseAfterClose ==
    \A d \in Entries :
       /\ ~job[d].used_closed
       /\ job[d].closes <= 1
       /\ (job[d].pc = "done" /\ job[d].returned) =>
             job[d].closes = 1 /\ job[d].left_page = "closed"

====
